---- MODULE Spec2Model ----
(***************************************************************************)
(* Model of src/app_render.py: the URL dispatch (detect_platform,          *)
(* extract_app_id), the review fetchers with their demo-data fallback, and *)
(* the /scrape and /download handlers over the shared /tmp directory.      *)
(*                                                                         *)
(* Strings are sequences of tokens.  A token is a piece of text that the   *)
(* code's substring tests and regular expressions never split: one         *)
(* character, or a literal such as "play.google.com" or "id".  Chars(tok)  *)
(* gives the characters of a token where the code counts characters.       *)
(***************************************************************************)
EXTENDS Integers, Sequences, FiniteSets, TLC

VARIABLES
    now,        \* the clock that datetime.now() reads, in ticks
    tmp,        \* the files of /tmp: file name -> rows
    req,        \* for each request POST /scrape: where it is, and its locals
    dl,         \* the response to the latest GET /download
    generated,  \* the file names written by POST /scrape so far
    served,     \* the 200 responses of POST /scrape so far
    unit        \* a single call of a ReviewScraper method: its arguments and result

vars == <<now, tmp, req, dl, generated, served, unit>>
srvVars == <<now, tmp, req, dl, generated, served>>

(* ------------------------------ bounds -------------------------------- *)
MaxTailLen == 4
MaxUpstream == 2
MaxClock == 2
TicksPerSecond == 2
MaxPathLen == 3

(* ------------------------- program constants -------------------------- *)
DefaultMaxReviews == 500
NameLimit == 50

(* --------------------------- string helpers --------------------------- *)
Min(a, b) == IF a < b THEN a ELSE b
Max(a, b) == IF a > b THEN a ELSE b

\* Sequences over S of length 0..n.
SeqsUpTo(S, n) == UNION {[1..k -> S] : k \in 0..n}

\* pat occurs in s starting at position i.
MatchesAt(s, pat, i) ==
    /\ i >= 1
    /\ i + Len(pat) - 1 <= Len(s)
    /\ \A k \in 1..Len(pat) : s[i + k - 1] = pat[k]

\* Python's `pat in s`.
Contains(s, pat) == \E i \in 1..(Len(s) + 1) : MatchesAt(s, pat, i)

\* s[:n] for n >= 0, s[:n] counting from the end for n < 0 (Python slicing).
PySlice(s, n) ==
    IF n >= 0 THEN SubSeq(s, 1, Min(n, Len(s)))
    ELSE SubSeq(s, 1, Max(Len(s) + n, 0))

\* The end of the longest run of tokens in Class that starts at position i
\* (i - 1 when s[i] is not in Class): a greedy `[class]*`.
RECURSIVE RunEnd(_, _, _)
RunEnd(s, i, Class) ==
    IF i <= Len(s) /\ s[i] \in Class THEN RunEnd(s, i + 1, Class) ELSE i - 1

(* ------------------------------ tokens -------------------------------- *)
PlayHost == "play.google.com"
AppsHost == "apps.apple.com"
ItunesHost == "itunes.apple.com"
OtherHost == "example.com"
HostTokens == {PlayHost, AppsHost, ItunesHost, OtherHost}
DigitTokens == {"7", "123456789"}
TailTokens == {"?", "&", "=", "id", "u", "7"}
AllTokens ==
    HostTokens \cup DigitTokens \cup TailTokens
        \cup {"https://", "/", " ", "_", "#", "not-a-url", "com.demo.app",
              "A", "B", "x", "(", ")", "D", "e", "m", "o", "p", "I"}

(* --------------------------- ReviewScraper ---------------------------- *)
None == "None"

\* A detector that tests for the App Store hosts first.
detect_platform_first_wins(url) ==
    IF Contains(url, <<AppsHost>>) \/ Contains(url, <<ItunesHost>>)
    THEN "app_store"
    ELSE IF Contains(url, <<PlayHost>>) THEN "google_play" ELSE None

detect_platform(url) ==
    IF Contains(url, <<PlayHost>>) THEN "google_play"
    ELSE IF Contains(url, <<AppsHost>>) \/ Contains(url, <<ItunesHost>>)
         THEN "app_store"
         ELSE None

\* The result of re.search(...).group(1), or no match.
NoMatch == [found |-> FALSE, id |-> <<>>]
Group(s, from, to) == [found |-> TRUE, id |-> SubSeq(s, from, to)]

\* re.search(r'id=([^&]+)', url): the leftmost "id=" that is followed by at
\* least one character other than "&"; the group runs greedily to the next
\* "&" or the end of the string.
SearchIdEquals(url) ==
    LET NotAmp == AllTokens \ {"&"}
        Hits == {i \in 1..Len(url) :
                    /\ MatchesAt(url, <<"id", "=">>, i)
                    /\ i + 2 <= Len(url)
                    /\ url[i + 2] \in NotAmp}
    IN IF Hits = {} THEN NoMatch
       ELSE LET i == CHOOSE h \in Hits : \A g \in Hits : h <= g
            IN Group(url, i + 2, RunEnd(url, i + 2, NotAmp))

\* re.search(r'id(\d+)', url): the leftmost "id" followed by a digit; the
\* group is the greedy run of digits.
SearchIdDigits(url) ==
    LET Hits == {i \in 1..Len(url) :
                    /\ url[i] = "id"
                    /\ i + 1 <= Len(url)
                    /\ url[i + 1] \in DigitTokens}
    IN IF Hits = {} THEN NoMatch
       ELSE LET i == CHOOSE h \in Hits : \A g \in Hits : h <= g
            IN Group(url, i + 1, RunEnd(url, i + 1, DigitTokens))

extract_app_id(url, platform) ==
    IF platform = "google_play" THEN SearchIdEquals(url)
    ELSE IF platform = "app_store" THEN SearchIdDigits(url)
    ELSE NoMatch

(* ------------------------ upstream data sources ----------------------- *)
\* The instant t is counted in ticks; strftime('... %H:%M:%S') keeps whole
\* seconds.
Second(t) == t \div TicksPerSecond

\* What the external library does on this call: it is not installed
\* ("absent": ImportError), a call into it raises ("raises"), or it yields
\* `n` raw reviews of the app titled `title`, the `bad`-th of which (0: none)
\* lacks a field the mapping reads.
Titles ==
    {<<"A", " ", "B">>, <<"A", "_", "B">>, <<>>,
     [i \in 1..(NameLimit + 1) |-> IF i <= NameLimit THEN "x" ELSE "A"],
     [i \in 1..(NameLimit + 1) |-> IF i <= NameLimit THEN "x" ELSE "B"]}
Upstreams(titles) ==
    {[lib |-> "absent", title |-> <<>>, n |-> 0, bad |-> 0],
     [lib |-> "raises", title |-> <<>>, n |-> 0, bad |-> 0]}
    \cup UNION {{[lib |-> "ok", title |-> ti, n |-> n, bad |-> b] :
                    ti \in titles, b \in 0..n} : n \in 0..MaxUpstream}

\* The i-th raw review of the Google Play source (reviews_all) and of the
\* App Store source (scraper.reviews), in fetch order.
RawGooglePlay(i) ==
    [userName |-> <<"user", i>>, score |-> 1 + (i % 5),
     content |-> <<"text", i>>, at |-> i, thumbsUpCount |-> i]
RawAppStore(i) ==
    [userName |-> <<"user", i>>, rating |-> 1 + (i % 5),
     review |-> <<"text", i>>, date |-> i]
reviews_all(up) == [i \in 1..up.n |-> RawGooglePlay(i)]
scraper_reviews(up) == [i \in 1..up.n |-> RawAppStore(i)]

(* --------------------------- review fetchers -------------------------- *)
Returned(reviews) == [raised |-> FALSE, reviews |-> reviews]
Raised == [raised |-> TRUE, reviews |-> <<>>]

PlatformName(platform) ==
    IF platform = "google_play" THEN "Google Play Store" ELSE "Apple App Store"

DemoAppName(app_id) ==
    <<"D", "e", "m", "o", " ", "A", "p", "p", " ", "(">> \o app_id \o <<")">>

_get_demo_data(platform, app_id, t) ==
    LET demo(k, rating, text, helpful) ==
            [app_name |-> DemoAppName(app_id),
             reviewer_name |-> <<"Demo User", k>>,
             rating |-> rating,
             review_text |-> <<text>>,
             review_date |-> <<Second(t)>>,
             helpful_count |-> helpful,
             platform |-> PlatformName(platform)]
    IN <<demo(1, 5, "Great app! Works perfectly and has a beautiful interface.", 15),
         demo(2, 4, "Very useful app. The yellow theme looks amazing!", 8),
         demo(3, 5, "Excellent functionality and easy to use. Highly recommended!", 22)>>

\* Python truthiness of an integer.
Truthy(n) == n # 0

MapGooglePlay(app_name, review) ==
    [app_name |-> app_name,
     reviewer_name |-> review.userName,
     rating |-> review.score,
     review_text |-> review.content,
     review_date |-> <<Second(review.at)>>,
     helpful_count |-> review.thumbsUpCount,
     platform |-> "Google Play Store"]

MapAppStore(app_name, review) ==
    [app_name |-> app_name,
     reviewer_name |-> review.userName,
     rating |-> review.rating,
     review_text |-> review.review,
     review_date |-> <<Second(review.date)>>,
     helpful_count |-> 0,
     platform |-> "Apple App Store"]

\* A fetcher whose handlers keep the records mapped before the error.
scrape_google_play_reviews_partial(app_id, max_reviews, up, t) ==
    IF up.lib # "ok" THEN Returned(_get_demo_data("google_play", app_id, t))
    ELSE LET result == reviews_all(up)
             limited == IF Truthy(max_reviews) /\ Len(result) > max_reviews
                        THEN PySlice(result, max_reviews) ELSE result
             good == IF up.bad \in 1..Len(limited) THEN up.bad - 1
                     ELSE Len(limited)
         IN Returned([i \in 1..good |-> MapGooglePlay(up.title, limited[i])])

\* try: import, app(app_id), reviews_all(...), truncation and mapping;
\* except ImportError / except Exception: the demo data replaces `reviews`.
scrape_google_play_reviews(app_id, max_reviews, up, t) ==
    IF up.lib # "ok" THEN Returned(_get_demo_data("google_play", app_id, t))
    ELSE LET result == reviews_all(up)
             limited == IF Truthy(max_reviews) /\ Len(result) > max_reviews
                        THEN PySlice(result, max_reviews) ELSE result
         IN IF up.bad \in 1..Len(limited)
            THEN Returned(_get_demo_data("google_play", app_id, t))
            ELSE Returned([i \in 1..Len(limited) |->
                              MapGooglePlay(up.title, limited[i])])

\* try: import, AppStore(...), scraper.review(how_many=max_reviews or 500),
\* mapping of every record of scraper.reviews; the handlers as above.
scrape_app_store_reviews(app_id, max_reviews, up, t) ==
    IF up.lib # "ok" THEN Returned(_get_demo_data("app_store", app_id, t))
    ELSE LET result == scraper_reviews(up)
             app_name == IF up.title # <<>> THEN up.title
                         ELSE <<"A", "p", "p", " ", "I", "D", " ">> \o app_id
         IN IF up.bad \in 1..Len(result)
            THEN Returned(_get_demo_data("app_store", app_id, t))
            ELSE Returned([i \in 1..Len(result) |->
                              MapAppStore(app_name, result[i])])

\* The dispatch of scrape_reviews once platform and app id are known.
FetchReviews(platform, app_id, max_reviews, up, t) ==
    IF platform = "google_play"
    THEN scrape_google_play_reviews(app_id, max_reviews, up, t)
    ELSE scrape_app_store_reviews(app_id, max_reviews, up, t)

(* ---------------------------- request bodies -------------------------- *)
\* What request.get_json() yields: nothing usable (no body, or a body that
\* is not a JSON object), or an object whose "url" is missing, null, a
\* number or a string, and whose "max_reviews" is missing or an integer.
MissingUrl == [t |-> "missing", s |-> <<>>]
NullUrl == [t |-> "null", s |-> <<>>]
NumberUrl == [t |-> "number", s |-> <<>>]
StringUrl(s) == [t |-> "string", s |-> s]
NoMax == [given |-> FALSE, n |-> 0]
GivenMax(n) == [given |-> TRUE, n |-> n]
NoBody == [kind |-> "none", url |-> MissingUrl, max_reviews |-> NoMax]
JsonObject(url, max_reviews) ==
    [kind |-> "object", url |-> url, max_reviews |-> max_reviews]

(* ------------------------------ idle state ---------------------------- *)
\* The two requests POST /scrape that the server handles, each on its own
\* thread.
Workers == {1, 2}
NoFile == <<>>
IdleReq ==
    [pc |-> "idle", body |-> NoBody, invoked |-> FALSE,
     reviews |-> <<>>, ts |-> 0, filename |-> NoFile, status |-> 0,
     error |-> "", review_count |-> 0, app_name |-> <<>>, wrote |-> FALSE]
NoDownload ==
    [filename |-> NoFile, status |-> 0, body |-> <<>>, was_generated |-> FALSE,
     after |-> 0]
ServerIdle ==
    /\ now = 0
    /\ tmp = [f \in {} |-> <<>>]
    /\ req = [w \in Workers |-> IdleReq]
    /\ dl = NoDownload
    /\ generated = {}
    /\ served = {}

(* ------------- detect_platform and extract_app_id, alone -------------- *)
\* The URLs the two functions are applied to: a head naming one host (or an
\* App Store host with a Google Play host after it, and the reverse), then
\* every tail of at most MaxTailLen tokens.
UrlHeads ==
    {<<"https://", h, "/">> : h \in HostTokens}
        \cup {<<"https://", AppsHost, "/", PlayHost>>,
              <<"https://", PlayHost, "/", ItunesHost>>}
UnitUrls == {h \o t : h \in UrlHeads, t \in SeqsUpTo(TailTokens, MaxTailLen)}

InitUrl ==
    /\ ServerIdle
    /\ unit \in {[pc |-> "start", url |-> u, platform |-> None,
                  app_id |-> NoMatch] : u \in UnitUrls}

Detect ==
    /\ unit.pc = "start"
    /\ unit' = [unit EXCEPT !.pc = "detected",
                            !.platform = detect_platform(unit.url)]
    /\ UNCHANGED srvVars

Extract ==
    /\ unit.pc = "detected"
    /\ unit' = [unit EXCEPT !.pc = "extracted",
                            !.app_id = extract_app_id(unit.url, unit.platform)]
    /\ UNCHANGED srvVars

NextUrl == Detect \/ Extract
SpecUrl == InitUrl /\ [][NextUrl]_vars

\* C7 (as stated): every URL containing play.google.com is classified
\* GooglePlay, every URL containing apps.apple.com or itunes.apple.com is
\* classified AppStore, and every other URL is Unsupported.
C7_Original ==
    unit.pc # "start" =>
        /\ Contains(unit.url, <<PlayHost>>) => unit.platform = "google_play"
        /\ (Contains(unit.url, <<AppsHost>>) \/ Contains(unit.url, <<ItunesHost>>))
              => unit.platform = "app_store"
        /\ (~Contains(unit.url, <<PlayHost>>) /\ ~Contains(unit.url, <<AppsHost>>)
              /\ ~Contains(unit.url, <<ItunesHost>>)) => unit.platform = None

\* C7 (amended): every URL containing play.google.com is classified
\* GooglePlay; every URL containing apps.apple.com or itunes.apple.com and
\* not play.google.com is classified AppStore; every other URL is
\* Unsupported.
C7_Amended ==
    unit.pc # "start" =>
        /\ Contains(unit.url, <<PlayHost>>) => unit.platform = "google_play"
        /\ ((Contains(unit.url, <<AppsHost>>) \/ Contains(unit.url, <<ItunesHost>>))
              /\ ~Contains(unit.url, <<PlayHost>>)) => unit.platform = "app_store"
        /\ (~Contains(unit.url, <<PlayHost>>) /\ ~Contains(unit.url, <<AppsHost>>)
              /\ ~Contains(unit.url, <<ItunesHost>>)) => unit.platform = None

\* A URL naming both storefronts has been classified, as GooglePlay.
C7_Witness ==
    /\ unit.pc = "detected"
    /\ Contains(unit.url, <<PlayHost>>)
    /\ Contains(unit.url, <<AppsHost>>)
    /\ unit.platform = "google_play"

\* The query string of a URL starts after its first "?"; its parameters are
\* separated by "&"; a parameter named id starts with "id=".
QueryStart(url) ==
    IF Contains(url, <<"?">>)
    THEN CHOOSE i \in 1..Len(url) :
            url[i] = "?" /\ \A k \in 1..(i - 1) : url[k] # "?"
    ELSE Len(url) + 1
IdParams(url) ==
    {i \in (QueryStart(url) + 1)..Len(url) :
        /\ url[i - 1] \in {"?", "&"}
        /\ MatchesAt(url, <<"id", "=">>, i)}
IdParamValue(url) ==
    LET i == CHOOSE h \in IdParams(url) : \A g \in IdParams(url) : h <= g
    IN SubSeq(url, i + 2, RunEnd(url, i + 2, AllTokens \ {"&"}))

\* C8 (as stated): for a GooglePlay URL the extractor returns exactly the
\* value of the id query parameter, and absence when the URL has no id query
\* parameter.
C8_Original ==
    (unit.pc = "extracted" /\ unit.platform = "google_play") =>
        IF IdParams(unit.url) = {} THEN unit.app_id = NoMatch
        ELSE unit.app_id = [found |-> TRUE, id |-> IdParamValue(unit.url)]

(* ----------------------- the review fetchers, alone ------------------- *)
AppIds == {<<"com.demo.app">>, <<"7">>}
MaxReviewsValues == {-1, 0, 1, 2, DefaultMaxReviews}

InitFetch ==
    /\ ServerIdle
    /\ unit \in {[pc |-> "start", platform |-> p, app_id |-> a,
                  max_reviews |-> m, up |-> u, t |-> t, result |-> Raised] :
                    p \in {"google_play", "app_store"}, a \in AppIds,
                    m \in MaxReviewsValues, u \in Upstreams({<<"A", " ", "B">>, <<>>}),
                    t \in 0..MaxClock}

FetchGooglePlay ==
    /\ unit.pc = "start"
    /\ unit.platform = "google_play"
    /\ unit' = [unit EXCEPT !.pc = "fetched",
                  !.result = scrape_google_play_reviews(unit.app_id,
                                 unit.max_reviews, unit.up, unit.t)]
    /\ UNCHANGED srvVars

FetchAppStore ==
    /\ unit.pc = "start"
    /\ unit.platform = "app_store"
    /\ unit' = [unit EXCEPT !.pc = "fetched",
                  !.result = scrape_app_store_reviews(unit.app_id,
                                 unit.max_reviews, unit.up, unit.t)]
    /\ UNCHANGED srvVars

NextFetch == FetchGooglePlay \/ FetchAppStore
SpecFetch == InitFetch /\ [][NextFetch]_vars

\* The external source failed on this call: the library is absent, a call
\* into it raised, or a record the mapping reached lacks a field.
MappedCount(u) ==
    IF u.platform = "google_play" /\ Truthy(u.max_reviews) /\ u.up.n > u.max_reviews
    THEN Len(PySlice([i \in 1..u.up.n |-> i], u.max_reviews))
    ELSE u.up.n
FetchFailed(u) == u.up.lib # "ok" \/ u.up.bad \in 1..MappedCount(u)

\* C2: whenever the external source is absent or an error occurs while
\* invoking it or mapping its records, the fetcher raises nothing and returns
\* exactly 3 records, each tagged with the requested platform's display name
\* and with an app_name containing the identifier.
C2_Fallback ==
    (unit.pc = "fetched" /\ FetchFailed(unit)) =>
        /\ ~unit.result.raised
        /\ Len(unit.result.reviews) = 3
        /\ \A i \in 1..Len(unit.result.reviews) :
              /\ unit.result.reviews[i].platform = PlatformName(unit.platform)
              /\ Contains(unit.result.reviews[i].app_name, unit.app_id)
              /\ unit.result.reviews[i].reviewer_name[1] = "Demo User"

\* The mapping of the second of two records failed, and the fallback came.
C2_Witness ==
    /\ unit.pc = "fetched"
    /\ unit.up.lib = "ok" /\ unit.up.n = 2 /\ unit.up.bad = 2
    /\ FetchFailed(unit)
    /\ Len(unit.result.reviews) = 3

\* C4 (as stated, for a maximum record count of at least 1): on the success
\* path the fetcher returns the first min(n, max) upstream records in fetch
\* order, never more than max.
C4_Original ==
    (unit.pc = "fetched" /\ ~FetchFailed(unit) /\ unit.max_reviews >= 1) =>
        /\ Len(unit.result.reviews) = Min(unit.up.n, unit.max_reviews)
        /\ \A i \in 1..Len(unit.result.reviews) :
              unit.result.reviews[i].reviewer_name = <<"user", i>>

(* ------------------------------ POST /scrape -------------------------- *)
\* str.strip(): leading and trailing whitespace removed.
RECURSIVE LStrip(_)
LStrip(s) == IF s # <<>> /\ Head(s) = " " THEN LStrip(Tail(s)) ELSE s
RECURSIVE RStrip(_)
RStrip(s) ==
    IF s # <<>> /\ s[Len(s)] = " " THEN RStrip(SubSeq(s, 1, Len(s) - 1)) ELSE s
Strip(s) == LStrip(RStrip(s))

\* urlparse(url).scheme and .netloc, for strings whose only ":" is the one of
\* a leading "https://": the scheme is what precedes the ":", the netloc is
\* what follows "//" up to the next "/", "?" or "#".
ParsedScheme(url) ==
    IF url # <<>> /\ url[1] = "https://" THEN <<"https">> ELSE <<>>
ParsedNetloc(url) ==
    LET start == IF url # <<>> /\ url[1] = "https://" THEN 2
                 ELSE IF MatchesAt(url, <<"/", "/">>, 1) THEN 3
                 ELSE 0
    IN IF start = 0 THEN <<>>
       ELSE SubSeq(url, start, RunEnd(url, start, AllTokens \ {"/", "?", "#"}))

\* What a call that may raise yields: a value, or the exception's message.
Ok(reviews) == [raised |-> FALSE, error |-> "", reviews |-> reviews]
Raise(msg) == [raised |-> TRUE, error |-> msg, reviews |-> <<>>]

scrape_reviews(url, max_reviews, up, t) ==
    LET platform == detect_platform(url)
        app_id == extract_app_id(url, platform)
    IN IF platform = None
       THEN Raise("Unsupported URL. Please provide a Google Play Store or Apple App Store URL.")
       ELSE IF ~app_id.found
       THEN Raise("Could not extract app ID from URL.")
       ELSE LET r == FetchReviews(platform, app_id.id, max_reviews, up, t)
            IN IF r.raised THEN Raise("fetch") ELSE Ok(r.reviews)

\* scrape(), lines 193-213: the answer given before any file is named, or
\* status 0 and the reviews when the handler goes on.
Answer(status, error, invoked) ==
    [status |-> status, error |-> error, invoked |-> invoked, reviews |-> <<>>]
ScrapeFetch(body, up, t) ==
    IF body.kind # "object"
    THEN Answer(500, "request.get_json() gave no object", FALSE)
    ELSE IF body.url.t \in {"null", "number"}
    THEN Answer(500, "object has no attribute 'strip'", FALSE)
    ELSE LET url == Strip(body.url.s)
             max_reviews == IF body.max_reviews.given THEN body.max_reviews.n
                            ELSE DefaultMaxReviews
         IN IF url = <<>> THEN Answer(400, "URL is required", FALSE)
            ELSE IF ParsedScheme(url) = <<>> \/ ParsedNetloc(url) = <<>>
            THEN Answer(400, "Invalid URL format", FALSE)
            ELSE LET r == scrape_reviews(url, max_reviews, up, t)
                 IN IF r.raised THEN Answer(500, r.error, TRUE)
                    ELSE IF r.reviews = <<>>
                    THEN Answer(404, "No reviews found or unable to scrape", TRUE)
                    ELSE [status |-> 0, error |-> "", invoked |-> TRUE,
                          reviews |-> r.reviews]

\* The characters of a string: the tokens that stand for several characters
\* are spelled out.
Chars(tok) ==
    CASE tok = "com.demo.app" ->
            <<"c", "o", "m", ".", "d", "e", "m", "o", ".", "a", "p", "p">>
      [] tok = "123456789" -> <<"1", "2", "3", "4", "5", "6", "7", "8", "9">>
      [] OTHER -> <<tok>>
RECURSIVE Explode(_)
Explode(s) == IF s = <<>> THEN <<>> ELSE Chars(Head(s)) \o Explode(Tail(s))

\* str.replace(old, new) for one-character old and new.
Replace(s, old, new) == [i \in 1..Len(s) |-> IF s[i] = old THEN new ELSE s[i]]

\* A sanitizer that keeps only the first 10 characters.
Sanitize_cut10(app_name) ==
    PySlice(Replace(Replace(Explode(app_name), " ", "_"), "/", "_"), 10)

\* reviews[0]['app_name'].replace(' ', '_').replace('/', '_')[:50]
Sanitize(app_name) ==
    PySlice(Replace(Replace(Explode(app_name), " ", "_"), "/", "_"), NameLimit)

\* strftime('%Y%m%d_%H%M%S') of the instant t (in ticks): one token for each
\* second since the start of the run.
StampTokens ==
    <<"19700101_000000", "19700101_000001", "19700101_000002",
      "19700101_000003", "19700101_000004", "19700101_000005",
      "19700101_000006", "19700101_000007">>
\* A stamp that keeps the fraction of the second.
FormatStamp_ticks(t) == StampTokens[t + 1]
FormatStamp(t) == StampTokens[Second(t) + 1]

\* f"reviews_{app_name}_{timestamp}.csv"
MakeFilename(app_name, timestamp) ==
    <<"reviews_">> \o app_name \o <<"_", timestamp, ".csv">>

\* pd.DataFrame(reviews).to_csv(filepath, index=False): the header row, then
\* one row for each record, the columns in the order of the record's keys.
CsvHeader ==
    <<"app_name", "reviewer_name", "rating", "review_text", "review_date",
      "helpful_count", "platform">>
CsvRow(r) ==
    <<r.app_name, r.reviewer_name, r.rating, r.review_text, r.review_date,
      r.helpful_count, r.platform>>
ToCsv(reviews) == <<CsvHeader>> \o [i \in 1..Len(reviews) |-> CsvRow(reviews[i])]

\* A write that appends the rows to a file that is already there.
WriteFile_append(dir, filename, content) ==
    [f \in DOMAIN dir \cup {filename} |->
        IF f # filename THEN dir[f]
        ELSE IF f \in DOMAIN dir THEN dir[f] \o Tail(content) ELSE content]
\* The directory after a file is created or replaced (to_csv opens with
\* mode 'w').
WriteFile(dir, filename, content) ==
    [f \in DOMAIN dir \cup {filename} |-> IF f = filename THEN content ELSE dir[f]]

\* The requests the server is given, each with what the external library
\* does during it.
GooglePlayUrl == <<"https://", PlayHost, "/", "?", "id", "=", "com.demo.app">>
AppStoreUrl == <<"https://", AppsHost, "/", "id", "123456789">>
NoLibrary == [lib |-> "absent", title |-> <<>>, n |-> 0, bad |-> 0]
ServerUpstreams ==
    {NoLibrary}
        \cup {[lib |-> "ok", title |-> <<"A", " ", "B">>, n |-> n, bad |-> 0] :
                n \in 0..MaxUpstream}
        \cup {[lib |-> "ok", title |-> ti, n |-> 1, bad |-> 0] :
                ti \in Titles \ {<<>>, <<"A", " ", "B">>}}
ServerInputs ==
    {<<JsonObject(StringUrl(<<"not-a-url">>), NoMax), u>> :
        u \in {NoLibrary}}
    \cup {<<JsonObject(StringUrl(<<"https://", PlayHost, "/">>), NoMax), u>> :
        u \in {NoLibrary}}
    \cup {<<JsonObject(StringUrl(GooglePlayUrl), NoMax), u>> : u \in ServerUpstreams}
    \cup {<<JsonObject(StringUrl(AppStoreUrl), GivenMax(1)), u>> :
        u \in {NoLibrary}}

\* Lines 194-213: the body is read and validated and the reviews fetched.
Scrape_Fetch(w, body, up) ==
    /\ req[w].pc = "idle"
    /\ LET a == ScrapeFetch(body, up, now)
       IN req' = [req EXCEPT ![w] =
                    [IdleReq EXCEPT !.body = body, !.invoked = a.invoked,
                        !.reviews = a.reviews, !.status = a.status,
                        !.error = a.error,
                        !.pc = IF a.status = 0 THEN "fetched" ELSE "done"]]
    /\ UNCHANGED <<now, tmp, dl, generated, served, unit>>

\* Lines 216-218: the file name is made from the first record and the clock.
Scrape_Name(w) ==
    /\ req[w].pc = "fetched"
    /\ req' = [req EXCEPT ![w].pc = "named", ![w].ts = Second(now),
                 ![w].filename =
                     MakeFilename(Sanitize(req[w].reviews[1].app_name),
                                  FormatStamp(now))]
    /\ UNCHANGED <<now, tmp, dl, generated, served, unit>>

\* Lines 221-234: the CSV is written and the request answered 200.
Scrape_Write(w) ==
    /\ req[w].pc = "named"
    /\ tmp' = WriteFile(tmp, req[w].filename, ToCsv(req[w].reviews))
    /\ req' = [req EXCEPT ![w].pc = "done", ![w].status = 200,
                 ![w].wrote = TRUE,
                 ![w].review_count = Len(req[w].reviews),
                 ![w].app_name = req[w].reviews[1].app_name]
    /\ generated' = generated \cup {req[w].filename}
    /\ served' = served \cup {[filename |-> req[w].filename,
                               app_name |-> req[w].reviews[1].app_name,
                               ts |-> req[w].ts]}
    /\ UNCHANGED <<now, dl, unit>>

(* --------------------------- GET /download ---------------------------- *)
MissingFile == <<"doesnotexist.csv">>
ForeignFile == <<"other.txt">>

download_file(filename) ==
    /\ dl' = IF filename \in DOMAIN tmp
             THEN [filename |-> filename, status |-> 200, body |-> tmp[filename],
                   was_generated |-> filename \in generated,
                   after |-> Cardinality({w \in Workers : req[w].pc = "done"})]
             ELSE [filename |-> filename, status |-> 404, body |-> <<>>,
                   was_generated |-> filename \in generated,
                   after |-> Cardinality({w \in Workers : req[w].pc = "done"})]
    /\ UNCHANGED <<now, tmp, req, generated, served, unit>>

(* ------------------------------ the server ---------------------------- *)
Tick ==
    /\ now < MaxClock
    /\ now' = now + 1
    /\ UNCHANGED <<tmp, req, dl, generated, served, unit>>

\* /tmp is the system's temporary directory: at start it holds no file of
\* this program, and may hold a file of another.
Init ==
    /\ now = 0
    /\ tmp \in {[f \in {} |-> <<>>], [f \in {ForeignFile} |-> <<>>]}
    /\ req = [w \in Workers |-> IdleReq]
    /\ dl = NoDownload
    /\ generated = {}
    /\ served = {}
    /\ unit = [pc |-> "none"]

Next ==
    \/ \E w \in Workers, in \in ServerInputs : Scrape_Fetch(w, in[1], in[2])
    \/ \E w \in Workers : Scrape_Name(w)
    \/ \E w \in Workers : Scrape_Write(w)
    \/ \E f \in DOMAIN tmp \cup {MissingFile, ForeignFile} : download_file(f)
    \/ Tick

Spec == Init /\ [][Next]_vars

(* ------------------------ POST /scrape, one request ------------------- *)
\* The URLs of the requests: with and without scheme and host, with leading
\* whitespace, and with every path of at most MaxPathLen tokens after "/".
RequestUrls ==
    {pre \o h \o t :
        pre \in {<<>>, <<"https://">>, <<" ", "https://">>},
        h \in {<<>>} \cup {<<x>> : x \in HostTokens},
        t \in {<<>>} \cup {<<"/">> \o x :
                            x \in SeqsUpTo({"?", "id", "=", "7"}, MaxPathLen)}}
RequestBodies ==
    {NoBody, JsonObject(MissingUrl, NoMax), JsonObject(NullUrl, NoMax),
     JsonObject(NumberUrl, GivenMax(1)), JsonObject(StringUrl(<<" ", " ">>), NoMax),
     JsonObject(StringUrl(<<"not-a-url">>), NoMax)}
        \cup {JsonObject(StringUrl(u), NoMax) : u \in RequestUrls}
RequestUpstreams ==
    {NoLibrary, [lib |-> "ok", title |-> <<"A", " ", "B">>, n |-> 0, bad |-> 0]}

NextRequest ==
    \/ \E body \in RequestBodies, up \in RequestUpstreams : Scrape_Fetch(1, body, up)
    \/ Scrape_Name(1)
    \/ Scrape_Write(1)

SpecRequest == Init /\ [][NextRequest]_vars

\* The URL of a request whose body is an object with a string "url".
HasStringUrl(r) == r.body.kind = "object" /\ r.body.url.t = "string"
UrlOf(r) == Strip(r.body.url.s)
WellFormed(url) == ParsedScheme(url) # <<>> /\ ParsedNetloc(url) # <<>>

\* C1 (as stated): a request whose URL is well-formed but names no known
\* storefront, or names one without a matching identifier, is answered with
\* a 400-class status and an error message, never 500.
C1_Original ==
    \A w \in Workers :
        (/\ req[w].pc = "done"
         /\ HasStringUrl(req[w])
         /\ WellFormed(UrlOf(req[w]))
         /\ \/ detect_platform(UrlOf(req[w])) = None
            \/ ~extract_app_id(UrlOf(req[w]), detect_platform(UrlOf(req[w]))).found)
        => (req[w].status \in 400..499 /\ req[w].error # "")

\* C3 (as stated): a request with a missing URL (no body, no url field, empty
\* or whitespace-only url, non-string url) or a malformed URL (no scheme or no
\* host) is answered 400 with an error field, and the scraping core is not
\* invoked.
C3_Original ==
    \A w \in Workers :
        (/\ req[w].pc = "done"
         /\ \/ ~HasStringUrl(req[w])
            \/ UrlOf(req[w]) = <<>>
            \/ ~WellFormed(UrlOf(req[w])))
        => (req[w].status = 400 /\ req[w].error # "" /\ ~req[w].invoked)

(* ------------------------- claims about the server -------------------- *)
\* C5 (as stated): GET /download/<filename> answers 200 with the file if and
\* only if <filename> names a file generated by an earlier successful POST
\* /scrape, and 404 otherwise; the filename of every 200 /scrape response
\* stays downloadable.
C5_Original ==
    /\ dl.status # 0 =>
          /\ dl.status = 200 <=> dl.was_generated
          /\ ~dl.was_generated => dl.status = 404
    /\ \A w \in Workers : req[w].status = 200 => req[w].filename \in DOMAIN tmp

Answered200(w) == req[w].pc = "done" /\ req[w].status = 200

\* C6: two requests for the same app whose timestamps fall in the same
\* second are both answered 200 with the same filename, which names one file
\* of /tmp written by both.
C6_SameSecondSameFile ==
    \A w1, w2 \in Workers :
        (/\ w1 # w2
         /\ Answered200(w1) /\ Answered200(w2)
         /\ req[w1].app_name = req[w2].app_name
         /\ req[w1].ts = req[w2].ts)
        => /\ req[w1].filename = req[w2].filename
           /\ req[w1].filename \in DOMAIN tmp
           /\ req[w1].wrote /\ req[w2].wrote

\* Both requests were answered 200 with one filename and different records,
\* and a download made after both holds the records of the second only.
C6_Witness ==
    \E w1, w2 \in Workers :
        /\ w1 # w2
        /\ Answered200(w1) /\ Answered200(w2)
        /\ req[w1].filename = req[w2].filename
        /\ req[w1].reviews # req[w2].reviews
        /\ dl.status = 200 /\ dl.after = 2
        /\ dl.filename = req[w1].filename
        /\ dl.body = ToCsv(req[w2].reviews)
        /\ dl.body # ToCsv(req[w1].reviews)

\* A step as C9 describes it: it changes /tmp only when it answers a request 200; the step that
\* answers a request 400, 404 or 500 leaves /tmp as it was; and a request
\* answered 200 reports a review_count of at least 1, equal to the number of
\* records in the file it names.
C9_Step ==
    /\ tmp' # tmp =>
          \E w \in Workers :
              req[w].pc # "done" /\ req'[w].pc = "done" /\ req'[w].status = 200
    /\ \A w \in Workers :
          (req[w].pc # "done" /\ req'[w].pc = "done") =>
              IF req'[w].status = 200
              THEN /\ req'[w].filename \in DOMAIN tmp'
                   /\ req'[w].review_count >= 1
                   /\ Len(tmp'[req'[w].filename]) - 1 = req'[w].review_count
              ELSE /\ req'[w].status \in {400, 404, 500}
                   /\ tmp' = tmp
                   /\ ~req'[w].wrote
C10_Original ==
    \A a, b \in served :
        a.filename = b.filename => (a.app_name = b.app_name /\ a.ts = b.ts)

\* The app name as the file name carries it: " " and "/" read "_", and only
\* the first 50 characters are kept.
NameInFilename(app_name) ==
    LET chars == Explode(app_name)
    IN [i \in 1..Min(Len(chars), 50) |->
            IF chars[i] \in {" ", "/"} THEN "_" ELSE chars[i]]

\* C10 (amended): two successful requests have the same filename only if the
\* app names of their first records agree once " " and "/" are replaced by
\* "_" and the name is cut to 50 characters, and their timestamps fall in the
\* same second.
C10_Amended ==
    \A a, b \in served :
        a.filename = b.filename =>
            (NameInFilename(a.app_name) = NameInFilename(b.app_name) /\ a.ts = b.ts)

\* Two requests with different app names were given one filename.
C10_Witness ==
    \E a, b \in served :
        /\ a.filename = b.filename
        /\ a.app_name # b.app_name
        /\ Len(a.app_name) > 50

====
